---- MODULE Spec2Model ----
(***************************************************************************)
(* A model of the freight-doom-engine ingestion pipeline:                  *)
(*   - circuit_breaker.rs : the per-endpoint circuit breaker               *)
(*   - dedup.rs           : the Bloom filter + LRU deduplication engine    *)
(*   - main.rs / scanners / publisher.rs : the bounded event channel       *)
(*   - scanners/*.rs      : the poll loop of a scanner                     *)
(*   - publisher.rs       : the batching Redis publisher                   *)
(*   - main.rs            : the shutdown signal and the bounded wait       *)
(* Time is a discrete clock `now`; an Instant is the value of the clock    *)
(* when it was taken, and Instant::elapsed() is now - instant.             *)
(***************************************************************************)
EXTENDS Integers, Sequences, FiniteSets, TLC

\* ------------------------------------------------------------------ bounds
MaxThreshold == 2
MaxResetTimeout == 2
MaxTime == 4
MaxTrips == 3
NumCallers == 2
NumKeys == 3
NumBits == 3
CacheCapacity == 2
DefaultLruSize == 3
RotationInterval == 2
MaxCalls == 4
MaxRacingCalls == 2
BusCapacity == 2
MaxEvents == 7
MaxCycles == 3
MaxLivePolls == 2
MaxItems == 2
BATCH_SIZE == 2
MaxSends == 3
NumCourts == 2
MaxHits == 3
MaxWords == 2
MaxPolls == 7
GracePeriod == 2

VARIABLES
    \* circuit_breaker.rs
    inner,              \* CircuitBreakerInner
    failure_threshold,  \* CircuitBreaker.failure_threshold
    success_threshold,  \* CircuitBreaker.success_threshold
    reset_timeout,      \* CircuitBreaker.reset_timeout
    \* the clock
    now,
    \* history of the breaker's calls
    last,               \* the most recent call: its name, result and the state before it
    streak,             \* record_failure calls since Closed with failure count 0, no success between
    hoSucc,             \* record_success calls since the breaker last entered HalfOpen
    reopenAt,           \* when the most recent failure in HalfOpen was recorded
    succReset,          \* failure count cleared by a record_success in Closed that was the latest record_* call
    \* dedup.rs
    bloom,              \* DedupEngine.bloom: the bits that are set
    lru_cache,          \* DedupEngine.lru_cache: its keys, most recently used first
    lru_capacity,       \* the lru_capacity DedupEngine::new was called with
    last_rotation,      \* DedupEngine.last_rotation
    stats,              \* DedupEngine.stats
    bloom_writer,       \* the caller holding bloom.write() inside maybe_rotate, or 0
    pc,                 \* where each caller of check_and_insert is
    key,                \* the key each caller passed
    bloom_says_maybe_seen,  \* each caller's local of that name
    \* history of the deduplicator's calls
    obs,                \* the last_rotation a caller saw when should_rotate was true
    used,               \* the keys some call was made with
    solo,               \* the caller's key was new and no other call used it meanwhile
    done,               \* the call that returned last: its key, its result, what it saw
    accepted,           \* per key, the calls that returned true
    recency,            \* all keys ever checked, latest first
    window,             \* the keys checked since the latest rotation
    \* the event channel of main.rs
    bus,                \* the events queued in the channel, oldest first
    received,           \* the events the publisher has taken, in order
    \* history of the channel
    attempted,          \* how many try_send calls were made; the n-th sends event n
    dropped,            \* the events whose try_send failed
    sent,               \* the latest try_send: its event, its result, the queue before and after it
    \* main.rs: the watch channel and the Sender handles
    shutdown,           \* the value of the watch channel
    senders,            \* the scanners that still hold a Sender of the channel
    \* scanners/*.rs: the poll loops
    scan_pc,            \* where each scanner is in its loop
    circuit_breaker,    \* each scanner's CircuitBreakerInner
    items,              \* per scanner: the item of the response it is at, and how many may follow
    \* history of the scanners
    scanHist,           \* polls begun, polls begun after the signal, keys lost and suppressed
    \* publisher.rs
    pub_pc,             \* where the publisher is in run()
    batch,              \* the local Vec of run()
    pub_stats,          \* PublisherStats
    published,          \* what was PUBLISHed to the Redis channel, in order
    persisted,          \* what was ZADDed to the sorted set, in order
    \* history of the publisher
    pubHist,            \* the batches handed to publish_batch, what was drained, what was lost
    \* main.rs: the wait for the tasks
    main_pc,            \* where main is
    finished,           \* the spawned tasks that have completed
    mainHist,           \* when the signal came, when all tasks were done, when main returned
    \* scanners/*.rs: the requests of one scanner and its breaker (the breaker is `inner`)
    poller,             \* which scanner it is
    req_pc,             \* where it is: in select!, or sending the requests of a cycle
    left,               \* the requests of the cycle not yet sent
    carrier_index,      \* fmcsa: the AtomicUsize of that name
    start_idx,          \* fmcsa: the local of that name
    \* history of the requests
    reqHist,            \* the latest request, the cycles begun and refused, the carriers probed
    \* text_scanner.rs and check_carrier: a function on its own
    input,              \* the arguments it is called with
    output              \* what it returned

breakerVars == <<inner, failure_threshold, success_threshold, reset_timeout>>
breakerHist == <<last, streak, hoSucc, reopenAt, succReset>>
dedupVars == <<bloom, lru_cache, lru_capacity, last_rotation, stats, bloom_writer, pc,
               key, bloom_says_maybe_seen>>
dedupHist == <<obs, used, solo, done, accepted, recency, window>>
busVars == <<bus, received, attempted, dropped, sent>>
scanVars == <<scan_pc, circuit_breaker, items, scanHist>>
pubVars == <<pub_pc, batch, pub_stats, published, persisted, pubHist>>
mainVars == <<main_pc, finished, mainHist>>
reqVars == <<poller, req_pc, left, carrier_index, start_idx, reqHist>>
unitVars == <<reqVars, input, output>>
pipeVars == <<shutdown, senders, scanVars, pubVars, mainVars, unitVars>>
vars == <<breakerVars, now, breakerHist, dedupVars, dedupHist, busVars, pipeVars>>

\* what the operations of one component leave alone
outsideBreaker == <<dedupVars, dedupHist, busVars, pipeVars>>
outsideDedup == <<breakerVars, breakerHist, busVars, pipeVars, lru_capacity>>
outsideBus == <<breakerVars, breakerHist, dedupVars, dedupHist, now, pipeVars>>

\* Option<Instant>::None
NoInstant == -1

Min(a, b) == IF a < b THEN a ELSE b

\* ------------------------------------------------------- circuit_breaker.rs

\* CircuitBreaker::new
NewInner(t) ==
    [ state             |-> "Closed",
      failure_count     |-> 0,
      success_count     |-> 0,
      last_failure_time |-> NoInstant,
      last_state_change |-> t,
      total_trips       |-> 0 ]

\* last_failure.elapsed() >= self.reset_timeout
TimeoutExpired_Strict(lf, t) == t - lf > reset_timeout
TimeoutExpired(lf, t) == t - lf >= reset_timeout

\* allow_request: the new inner state and the returned bool
allow_request(b, t) ==
    CASE b.state = "Closed" -> [inner |-> b, ret |-> TRUE]
      [] b.state = "Open" ->
            IF b.last_failure_time # NoInstant
            THEN IF TimeoutExpired(b.last_failure_time, t)
                 THEN [inner |-> [b EXCEPT !.state = "HalfOpen",
                                           !.success_count = 0,
                                           !.last_state_change = t],
                       ret |-> TRUE]
                 ELSE [inner |-> b, ret |-> FALSE]
            ELSE [inner |-> b, ret |-> TRUE]
      [] b.state = "HalfOpen" -> [inner |-> b, ret |-> TRUE]

\* record_success, state Closed
SuccessClosed_NoReset(b, t) == b
SuccessClosed(b, t) == [b EXCEPT !.failure_count = 0]

\* record_success, state HalfOpen
SuccessHalfOpen_OffByOne(b, t) ==
    LET sc == b.success_count + 1 IN
    IF sc > success_threshold
    THEN [b EXCEPT !.state = "Closed", !.failure_count = 0,
                   !.success_count = 0, !.last_state_change = t]
    ELSE [b EXCEPT !.success_count = sc]
SuccessHalfOpen(b, t) ==
    LET sc == b.success_count + 1 IN
    IF sc >= success_threshold
    THEN [b EXCEPT !.state = "Closed", !.failure_count = 0,
                   !.success_count = 0, !.last_state_change = t]
    ELSE [b EXCEPT !.success_count = sc]

record_success_Closing(b, t) ==
    CASE b.state = "Closed"   -> SuccessClosed(b, t)
      [] b.state = "HalfOpen" -> SuccessHalfOpen(b, t)
      [] b.state = "Open"     -> [b EXCEPT !.state = "Closed", !.failure_count = 0]
record_success(b, t) ==
    CASE b.state = "Closed"   -> SuccessClosed(b, t)
      [] b.state = "HalfOpen" -> SuccessHalfOpen(b, t)
      [] b.state = "Open"     -> b

\* record_failure, state Closed
FailureClosed_Late(b, t) ==
    LET fc == b.failure_count + 1 IN
    IF fc > failure_threshold
    THEN [b EXCEPT !.failure_count = fc, !.last_failure_time = t, !.state = "Open",
                   !.total_trips = @ + 1, !.last_state_change = t]
    ELSE [b EXCEPT !.failure_count = fc, !.last_failure_time = t]
FailureClosed(b, t) ==
    LET fc == b.failure_count + 1 IN
    IF fc >= failure_threshold
    THEN [b EXCEPT !.failure_count = fc, !.last_failure_time = t, !.state = "Open",
                   !.total_trips = @ + 1, !.last_state_change = t]
    ELSE [b EXCEPT !.failure_count = fc, !.last_failure_time = t]

\* record_failure, state HalfOpen
FailureHalfOpen_NoStamp(b, t) ==
    [b EXCEPT !.state = "Open", !.failure_count = failure_threshold,
              !.total_trips = @ + 1, !.last_state_change = t]
FailureHalfOpen(b, t) ==
    [b EXCEPT !.state = "Open", !.failure_count = failure_threshold,
              !.last_failure_time = t, !.total_trips = @ + 1,
              !.last_state_change = t]

\* record_failure, state Open
FailureOpen_Counted(b, t) == [b EXCEPT !.last_failure_time = t, !.failure_count = @ + 1]
FailureOpen(b, t) == [b EXCEPT !.last_failure_time = t]

record_failure(b, t) ==
    CASE b.state = "Closed"   -> FailureClosed(b, t)
      [] b.state = "HalfOpen" -> FailureHalfOpen(b, t)
      [] b.state = "Open"     -> FailureOpen(b, t)

\* ------------------------------------------------------------------ dedup.rs

Callers == 1..NumCallers
Keys == 1..NumKeys

Range(s) == {s[i] : i \in 1..Len(s)}
Remove(s, k) == SelectSeq(s, LAMBDA x: x # k)
IndexOf(s, k) == IF k \in Range(s) THEN CHOOSE i \in 1..Len(s) : s[i] = k ELSE 0

\* The bits of the filter's bitmap that the filter's hash functions give a key.
\* Distinct keys may share all their bits (a false positive).
BloomBits(k) == {k % NumBits, (2 * k + 1) % NumBits}

\* Bloom::new_for_fp_rate: no bit set
NewBloom == {}

\* maybe_rotate: *bloom = Bloom::new_for_fp_rate(..)
Rotate_Kept(f) == f
Rotate(f) == NewBloom

\* bloom.check(&key)
BloomCheck(f, k) == BloomBits(k) \subseteq f

\* bloom.set(&key)
BloomSet_Nop(f, k) == f
BloomSet(f, k) == f \cup BloomBits(k)

\* lru.get(&key).is_some()
LruContains_TrustBloom(c, k) == TRUE
LruContains(c, k) == k \in Range(c)

\* lru.get(&key) on a hit: the key becomes the most recently used
LruTouch_InPlace(c, k) == c
LruTouch(c, k) == <<k>> \o Remove(c, k)

\* NonZeroUsize::new(lru_capacity).unwrap_or(NonZeroUsize::new(1000).unwrap()):
\* the capacity the LruCache is built with (the 1000 is scaled to DefaultLruSize)
lru_size == IF lru_capacity = 0 THEN DefaultLruSize ELSE lru_capacity

\* lru.put(key, true): a present key is refreshed; a new key evicts the least
\* recently used one when the cache is at capacity
LruPut(c, k) ==
    IF k \in Range(c)
    THEN <<k>> \o Remove(c, k)
    ELSE IF Len(c) >= lru_size
         THEN <<k>> \o SubSeq(c, 1, lru_size - 1)
         ELSE <<k>> \o c

\* last.elapsed().as_secs() >= self.rotation_interval_secs
RotationDue(lr, t) == t - lr >= RotationInterval

\* the same test, repeated once bloom.write() and last_rotation.write() are held
DoubleCheck_Skipped(lr, t) == TRUE
DoubleCheck(lr, t) == RotationDue(lr, t)

\* self.stats.duplicates.fetch_add(1, Ordering::Relaxed)
CountDuplicate_AsUnique(st) == [st EXCEPT !.unique = @ + 1]
CountDuplicate(st) == [st EXCEPT !.duplicates = @ + 1]

\* DedupStats::new
NewStats == [checks |-> 0, unique |-> 0, duplicates |-> 0, rotations |-> 0,
             bloom_maybe_hits |-> 0]

NoneDone == [key |-> 0, ret |-> "none", maybe |-> FALSE, solo |-> FALSE, idx |-> 0,
             sameWindow |-> FALSE]

\* the record of a call by caller t that returns r
Returned(t, r) ==
    [key |-> key[t], ret |-> r, maybe |-> bloom_says_maybe_seen[t], solo |-> solo[t],
     idx |-> IndexOf(recency, key[t]), sameWindow |-> key[t] \in window]

\* DedupEngine::new
NewDedup(capacity) ==
    /\ lru_capacity = capacity
    /\ bloom = NewBloom
    /\ lru_cache = <<>>
    /\ last_rotation = 0
    /\ stats = NewStats
    /\ bloom_writer = 0
    /\ pc = [t \in Callers |-> "idle"]
    /\ key = [t \in Callers |-> 0]
    /\ bloom_says_maybe_seen = [t \in Callers |-> FALSE]
    /\ obs = [t \in Callers |-> NoInstant]
    /\ used = {}
    /\ solo = [t \in Callers |-> FALSE]
    /\ accepted = [k \in Keys |-> 0]
    /\ recency = <<>>
    /\ window = {}
    /\ done = NoneDone

\* the engine with the capacity the claims about it are studied with
InitDedup == NewDedup(CacheCapacity)

\* ---------------------------------------------- the event channel (main.rs)

\* crossbeam_channel::bounded(10_000): the channel is at capacity
ChannelFull_Unbounded(q) == FALSE
ChannelFull(q) == Len(q) >= BusCapacity

\* Sender::try_send: the queue afterwards and whether the event was taken;
\* on Err the scanner logs the error and the event is gone
try_send(q, e) ==
    IF ChannelFull(q)
    THEN [queue |-> q, ok |-> FALSE]
    ELSE [queue |-> Append(q, e), ok |-> TRUE]

NoSend == [event |-> 0, ok |-> TRUE, pre |-> <<>>, post |-> <<>>, dropped |-> {}]

\* crossbeam_channel::bounded::<BankruptcyEvent>(10_000)
InitBus ==
    /\ bus = <<>>
    /\ received = <<>>
    /\ attempted = 0
    /\ dropped = {}
    /\ sent = NoSend

\* ---------------------------------------------------- the breaker's actions

NoCall == [op |-> "new", ret |-> TRUE, pre |-> NewInner(0), at |-> 0, succReset |-> -1]

\* CircuitBreaker::new with the given thresholds and timeout
NewBreaker(ft, st, rt) ==
    /\ failure_threshold = ft
    /\ success_threshold = st
    /\ reset_timeout = rt
    /\ inner = NewInner(0)
    /\ last = NoCall
    /\ streak = 0
    /\ hoSucc = 0
    /\ reopenAt = NoInstant
    /\ succReset = -1

InitBreaker ==
    \E ft \in 1..MaxThreshold, st \in 1..MaxThreshold, rt \in 0..MaxResetTimeout :
        NewBreaker(ft, st, rt)

\* a breaker nobody calls
IdleBreaker == NewBreaker(1, 1, 0)

Tick ==
    /\ now < MaxTime
    /\ now' = now + 1

BreakerTick ==
    /\ Tick
    /\ UNCHANGED <<breakerVars, breakerHist, dedupVars, dedupHist, busVars, pipeVars>>

AllowRequest ==
    LET r == allow_request(inner, now) IN
    /\ inner' = r.inner
    /\ last' = [op |-> "allow_request", ret |-> r.ret, pre |-> inner, at |-> now,
                succReset |-> succReset]
    /\ hoSucc' = IF inner.state = "Open" /\ r.inner.state = "HalfOpen" THEN 0 ELSE hoSucc
    /\ UNCHANGED <<failure_threshold, success_threshold, reset_timeout, now,
                   streak, reopenAt, succReset, outsideBreaker>>

RecordSuccess ==
    LET b == record_success(inner, now) IN
    /\ inner' = b
    /\ last' = [op |-> "record_success", ret |-> TRUE, pre |-> inner, at |-> now,
                succReset |-> succReset]
    /\ streak' = IF b.state = "Closed" /\ b.failure_count = 0 THEN 0 ELSE -1
    /\ hoSucc' = IF inner.state = "HalfOpen" THEN hoSucc + 1 ELSE hoSucc
    /\ succReset' = IF inner.state = "Closed" THEN inner.failure_count ELSE -1
    /\ UNCHANGED <<failure_threshold, success_threshold, reset_timeout, now, reopenAt,
                   outsideBreaker>>

RecordFailure ==
    LET b == record_failure(inner, now) IN
    /\ inner.total_trips < MaxTrips
    /\ inner' = b
    /\ last' = [op |-> "record_failure", ret |-> TRUE, pre |-> inner, at |-> now,
                succReset |-> succReset]
    /\ streak' = IF streak < 0 THEN streak ELSE Min(streak + 1, failure_threshold + 1)
    /\ reopenAt' = IF inner.state = "HalfOpen" THEN now ELSE reopenAt
    /\ succReset' = -1
    /\ UNCHANGED <<failure_threshold, success_threshold, reset_timeout, now, hoSucc,
                   outsideBreaker>>

NextBreaker ==
    \/ BreakerTick
    \/ AllowRequest
    \/ RecordSuccess
    \/ RecordFailure

\* ------------------------------------------- the deduplicator's actions
\* One call of check_and_insert is a sequence of steps, one per lock scope; a
\* counter's fetch_add is taken together with the lock scope next to it.

\* check_and_insert returns: the caller's locals are gone
Forget(t) ==
    /\ pc' = [pc EXCEPT ![t] = "idle"]
    /\ key' = [key EXCEPT ![t] = 0]
    /\ bloom_says_maybe_seen' = [bloom_says_maybe_seen EXCEPT ![t] = FALSE]
    /\ obs' = [obs EXCEPT ![t] = NoInstant]
    /\ solo' = [solo EXCEPT ![t] = FALSE]

\* check_and_insert is entered: checks += 1 (at most `limit` calls are made)
Enter(t, k, limit) ==
    /\ pc[t] = "idle"
    /\ stats.checks < limit
    /\ stats' = [stats EXCEPT !.checks = @ + 1]
    /\ pc' = [pc EXCEPT ![t] = "maybe_rotate"]
    /\ key' = [key EXCEPT ![t] = k]
    /\ bloom_says_maybe_seen' = bloom_says_maybe_seen
    /\ used' = used \cup {k}
    /\ solo' = [u \in Callers |->
                  IF u = t THEN k \notin used
                  ELSE IF pc[u] # "idle" /\ key[u] = k THEN FALSE
                  ELSE solo[u]]
    /\ UNCHANGED <<bloom, lru_cache, last_rotation, bloom_writer, obs, done, accepted,
                   recency, window, now, outsideDedup>>

\* a call made while other calls may be in progress
Begin(t, k) == Enter(t, k, MaxRacingCalls)

\* a call made while no other call is in progress
BeginAlone(t, k) ==
    /\ \A u \in Callers : pc[u] = "idle"
    /\ Enter(t, k, MaxCalls)

\* maybe_rotate: should_rotate is read under last_rotation.read()
ShouldRotate(t) ==
    /\ pc[t] = "maybe_rotate"
    /\ IF RotationDue(last_rotation, now)
       THEN /\ pc' = [pc EXCEPT ![t] = "rotate_lock"]
            /\ obs' = [obs EXCEPT ![t] = last_rotation]
       ELSE /\ pc' = [pc EXCEPT ![t] = "bloom_check"]
            /\ obs' = obs
    /\ UNCHANGED <<bloom, lru_cache, last_rotation, stats, bloom_writer, key,
                   bloom_says_maybe_seen, used, solo, done, accepted, recency, window,
                   now, outsideDedup>>

\* maybe_rotate: bloom.write() is acquired
RotateLock(t) ==
    /\ pc[t] = "rotate_lock"
    /\ bloom_writer = 0
    /\ bloom_writer' = t
    /\ pc' = [pc EXCEPT ![t] = "rotate_write"]
    /\ UNCHANGED <<bloom, lru_cache, last_rotation, stats, key, bloom_says_maybe_seen,
                   obs, used, solo, done, accepted, recency, window, now,
                   outsideDedup>>

\* maybe_rotate: the guards `bloom` and `last` are dropped where the
\* `if should_rotate` block ends; nobody holds bloom.write() then
Released_Leaked(t) == t
Released(t) == 0

\* maybe_rotate: last_rotation.write() is acquired, the test is repeated, the
\* filter is replaced, and both locks are released
RotateWrite(t) ==
    /\ pc[t] = "rotate_write"
    /\ bloom_writer = t
    /\ IF DoubleCheck(last_rotation, now)
       THEN /\ bloom' = Rotate(bloom)
            /\ last_rotation' = now
            /\ stats' = [stats EXCEPT !.rotations = @ + 1]
            /\ window' = {}
       ELSE UNCHANGED <<bloom, last_rotation, stats, window>>
    /\ bloom_writer' = Released(t)
    /\ pc' = [pc EXCEPT ![t] = "bloom_check"]
    /\ UNCHANGED <<lru_cache, key, bloom_says_maybe_seen, obs, used, solo, done,
                   accepted, recency, now, outsideDedup>>

\* Step 1: the filter is read under bloom.read(); bloom_maybe_hits += 1 on "maybe"
CheckBloom(t) ==
    /\ pc[t] = "bloom_check"
    /\ bloom_writer = 0
    /\ LET m == BloomCheck(bloom, key[t]) IN
       /\ bloom_says_maybe_seen' = [bloom_says_maybe_seen EXCEPT ![t] = m]
       /\ stats' = IF m THEN [stats EXCEPT !.bloom_maybe_hits = @ + 1] ELSE stats
       /\ pc' = [pc EXCEPT ![t] = IF m THEN "lru_get" ELSE "bloom_set"]
    /\ UNCHANGED <<bloom, lru_cache, last_rotation, bloom_writer, key, obs, used,
                   solo, done, accepted, recency, window, now, outsideDedup>>

\* the cache is asked under lru_cache.write(); a hit returns false
GetLru(t) ==
    /\ pc[t] = "lru_get"
    /\ IF LruContains(lru_cache, key[t])
       THEN /\ lru_cache' = LruTouch(lru_cache, key[t])
            /\ stats' = CountDuplicate(stats)
            /\ done' = Returned(t, "false")
            /\ recency' = <<key[t]>> \o Remove(recency, key[t])
            /\ window' = window \cup {key[t]}
            /\ Forget(t)
       ELSE /\ pc' = [pc EXCEPT ![t] = "bloom_set"]
            /\ UNCHANGED <<lru_cache, stats, done, recency, window, key,
                           bloom_says_maybe_seen, obs, solo>>
    /\ UNCHANGED <<bloom, last_rotation, bloom_writer, used, accepted, now,
                   outsideDedup>>

\* Step 2: the key is set in the filter under bloom.write()
SetBloom(t) ==
    /\ pc[t] = "bloom_set"
    /\ bloom_writer = 0
    /\ bloom' = BloomSet(bloom, key[t])
    /\ pc' = [pc EXCEPT ![t] = "lru_put"]
    /\ UNCHANGED <<lru_cache, last_rotation, stats, bloom_writer, key,
                   bloom_says_maybe_seen, obs, used, solo, done, accepted, recency,
                   window, now, outsideDedup>>

\* Step 2: the key is put in the cache under lru_cache.write(); unique += 1;
\* the call returns true
PutLru(t) ==
    /\ pc[t] = "lru_put"
    /\ lru_cache' = LruPut(lru_cache, key[t])
    /\ stats' = [stats EXCEPT !.unique = @ + 1]
    /\ done' = Returned(t, "true")
    /\ accepted' = [accepted EXCEPT ![key[t]] = @ + 1]
    /\ recency' = <<key[t]>> \o Remove(recency, key[t])
    /\ window' = window \cup {key[t]}
    /\ Forget(t)
    /\ UNCHANGED <<bloom, last_rotation, bloom_writer, used, now, outsideDedup>>

DedupTick ==
    /\ Tick
    /\ UNCHANGED <<breakerVars, breakerHist, dedupVars, dedupHist, busVars, pipeVars>>

Step(t) ==
    \/ ShouldRotate(t)
    \/ RotateLock(t)
    \/ RotateWrite(t)
    \/ CheckBloom(t)
    \/ GetLru(t)
    \/ SetBloom(t)
    \/ PutLru(t)

\* callers on several threads
NextDedup ==
    \/ DedupTick
    \/ \E t \in Callers, k \in Keys : Begin(t, k)
    \/ \E t \in Callers : Step(t)

\* callers one after the other
NextDedupSeq ==
    \/ DedupTick
    \/ \E t \in Callers, k \in Keys : BeginAlone(t, k)
    \/ \E t \in Callers : Step(t)

\* ------------------------------------------------- the channel's actions

\* a scanner: event_tx.try_send(event)
TrySend ==
    /\ attempted < MaxEvents
    /\ LET e == attempted + 1
           r == try_send(bus, e) IN
       /\ attempted' = e
       /\ bus' = r.queue
       /\ dropped' = IF r.ok THEN dropped ELSE dropped \cup {e}
       /\ sent' = [event |-> e, ok |-> r.ok, pre |-> bus, post |-> r.queue,
                   dropped |-> dropped]
    /\ UNCHANGED <<received, outsideBus>>

\* the publisher: self.receiver.try_recv() returning Ok(event)
TryRecv ==
    /\ bus # <<>>
    /\ received' = Append(received, Head(bus))
    /\ bus' = Tail(bus)
    /\ UNCHANGED <<attempted, dropped, sent, outsideBus>>

NextBus ==
    \/ TrySend
    \/ TryRecv

\* ------------------------------------------------------- scanners/*.rs
\* A scanner is `loop { tokio::select! { sleep(poll_interval) => poll, shutdown.changed()
\* => break } }` with poll_interval > 0. A poll asks the breaker, fetches one
\* response and processes its items in order; it has no await after the fetch.

\* The scanners by the shape of their item processing: edgar and court_listener
\* go through the gates in the order of pacer.
Scanners == {"pacer", "fmcsa"}

\* fmcsa's check_carrier asks the deduplicator before it tests the confidence;
\* pacer, edgar and court_listener test the confidence first
DedupFirst(p) == p = "fmcsa"

\* every scanner prefixes its dedup keys with its own name ("pacer:", "edgar:",
\* "fmcsa:", "cl:"): no key is used by two scanners
KeysOf(p) == {k \in Keys : (k % 2 = 0) <=> DedupFirst(p)}

\* !(confidence < min_confidence), after quick_freight_check
GatePassed_Ignored(confident) == TRUE
GatePassed(confident) == confident

\* DedupEngine::maybe_rotate by a caller with no other call in progress
maybe_rotate(d, t) ==
    IF RotationDue(d.last_rotation, t) /\ DoubleCheck(d.last_rotation, t)
    THEN [d EXCEPT !.bloom = NewBloom, !.last_rotation = t, !.stats.rotations = @ + 1]
    ELSE d

\* DedupEngine::check_and_insert by a caller with no other call in progress:
\* the engine afterwards and the returned bool
check_and_insert(d0, k, t) ==
    LET d == maybe_rotate([d0 EXCEPT !.stats.checks = @ + 1], t)
        m == BloomCheck(d.bloom, k)
        d1 == IF m THEN [d EXCEPT !.stats.bloom_maybe_hits = @ + 1] ELSE d
    IN  IF m /\ LruContains(d1.lru_cache, k)
        THEN [dedup |-> [d1 EXCEPT !.lru_cache = LruTouch(@, k),
                                   !.stats = CountDuplicate(@)],
              ret |-> FALSE]
        ELSE [dedup |-> [d1 EXCEPT !.bloom = BloomSet(@, k),
                                   !.lru_cache = LruPut(@, k),
                                   !.stats.unique = @ + 1],
              ret |-> TRUE]

\* the shared Arc<DedupEngine>
TheDedup == [bloom |-> bloom, lru_cache |-> lru_cache, last_rotation |-> last_rotation,
             stats |-> stats]

\* event_tx.try_send(event) returns at once, also when the channel is full
SendReturns_WhenRoom(q) == ~ChannelFull(q)
SendReturns(q) == TRUE

\* One item of a response, with dedup key k, by scanner p: the gates, then
\* try_send. `asked`: check_and_insert was called; `fresh`: what it returned;
\* `tried`: try_send was called; `ok`: it returned Ok.
process_item(p, k, confident, d, q, t) ==
    LET asked == DedupFirst(p) \/ GatePassed(confident)
        r == IF asked THEN check_and_insert(d, k, t) ELSE [dedup |-> d, ret |-> FALSE]
        tried == asked /\ r.ret /\ GatePassed(confident)
        s == IF tried THEN try_send(q, <<p, k>>) ELSE [queue |-> q, ok |-> FALSE]
    IN  [dedup |-> r.dedup, queue |-> s.queue, asked |-> asked, fresh |-> r.ret,
         tried |-> tried, ok |-> s.ok]

\* shutdown.changed() is ready: the value was sent since the scanner last looked
Changed_Never(s) == FALSE
Changed(s) == s

\* The loop comes back to tokio::select!, which polls both branches at once: the
\* new sleep(poll_interval) is pending, so the scanner breaks if
\* shutdown.changed() is ready and is suspended otherwise.
Reselect(s) == IF Changed(s) THEN "exited" ELSE "select"

\* A response holds up to MaxItems items, each with its dedup key and whether it
\* passes quick_freight_check and the confidence threshold. The scanner reads
\* them in order; `at` is the item it has come to (none: the response is
\* exhausted) and `more` bounds how many can follow it.
NoItems == [at |-> <<>>, more |-> 0]
Rest(p, n) ==
    {NoItems} \cup
    (IF n = 0 THEN {}
     ELSE {[at |-> <<it>>, more |-> n - 1] : it \in [key : KeysOf(p), confident : BOOLEAN]})

\* the four scanner tasks of main, each with its own breaker and Sender
InitScan ==
    /\ scan_pc = [p \in Scanners |-> "select"]
    /\ circuit_breaker = [p \in Scanners |-> NewInner(0)]
    /\ items = [p \in Scanners |-> NoItems]
    /\ scanHist = [begun |-> [p \in Scanners |-> 0],
                   late  |-> [p \in Scanners |-> 0],
                   lost  |-> {},
                   suppressed |-> {}]

\* --------------------------------------------------------- publisher.rs

\* Receiver::try_recv: Ok(event), Err(Empty) while a Sender is alive, and
\* Err(Disconnected) once the channel is empty and every Sender was dropped
try_recv_Newest(q, live) ==
    IF q # <<>>
    THEN [res |-> "ok", event |-> q[Len(q)], queue |-> SubSeq(q, 1, Len(q) - 1)]
    ELSE [res |-> IF live = {} THEN "disconnected" ELSE "empty", event |-> <<>>,
          queue |-> q]
try_recv(q, live) ==
    IF q # <<>>
    THEN [res |-> "ok", event |-> Head(q), queue |-> Tail(q)]
    ELSE [res |-> IF live = {} THEN "disconnected" ELSE "empty", event |-> <<>>,
          queue |-> q]

\* how a call of publish_batch can go: every command succeeds (at = 0), or the
\* PUBLISH or the ZADD of the at-th event fails
Outcomes(b) ==
    {[at |-> 0, op |-> "none"]} \cup [at : 1..Len(b), op : {"publish", "zadd"}]

\* publish_batch: per event PUBLISH then ZADD, `?` returning at the first error.
\* What reached the Redis channel, what reached the sorted set, and Ok or Err.
publish_batch(b, o) ==
    LET whole == IF o.at = 0 THEN Len(b) ELSE o.at - 1 IN
    [published |-> SubSeq(b, 1, whole) \o
                   (IF o.at > 0 /\ o.op = "zadd" THEN <<b[o.at]>> ELSE <<>>),
     persisted |-> SubSeq(b, 1, whole),
     ok        |-> o.at = 0]

\* PublisherStats after a call of publish_batch with result r
CountBatch(st, r) ==
    [st EXCEPT !.events_published = @ + Len(r.published),
               !.events_persisted = @ + Len(r.persisted),
               !.batches_sent = @ + (IF r.ok THEN 1 ELSE 0)]

\* run(), the Err arm after publish_batch in the loop:
\* publish_errors.fetch_add(batch.len())
CountErrors(st, b) == [st EXCEPT !.publish_errors = @ + Len(b)]

\* batch.clear() at the head of an iteration that saw no shutdown
Cleared_Kept(b) == b
Cleared(b) == <<>>

\* PublisherStats::new
NewPublisherStats ==
    [events_published |-> 0, events_persisted |-> 0, publish_errors |-> 0,
     batches_sent |-> 0]

NoPubHist ==
    [taken |-> {}, handed |-> <<>>, failed |-> {}, again |-> FALSE, drained |-> <<>>,
     final |-> <<>>, discarded |-> {}, unpublished |-> 0, failures |-> 0,
     exit |-> "none", attempt |-> "none", seen |-> FALSE]

\* RedisPublisher::new, and run() before it has connected
InitPub ==
    /\ pub_pc = "connect"
    /\ batch = <<>>
    /\ pub_stats = NewPublisherStats
    /\ published = <<>>
    /\ persisted = <<>>
    /\ pubHist = NoPubHist

\* ------------------------------------------------- main.rs: the shutdown

\* pacer, edgar, fmcsa, court_listener, publisher and metrics handles
NumHandles == 6
Tasks == 1..NumHandles

\* tokio::time::timeout(Duration::from_secs(10), ...) has run out
GraceExpired_Never(since, t) == FALSE
GraceExpired(since, t) == t - since >= GracePeriod

\* the timeout future of main is ready: every handle was joined, or time ran out
WaitOver(joined, since, t) == joined = Tasks \/ GraceExpired(since, t)

NoMainHist == [signalAt |-> NoInstant, allDoneAt |-> NoInstant, returnedAt |-> NoInstant,
               joined |-> FALSE]

\* main after the tasks were spawned and its own event_tx was dropped
InitMain ==
    /\ shutdown = FALSE
    /\ senders = Scanners
    /\ main_pc = "running"
    /\ finished = {}
    /\ mainHist = NoMainHist

\* --------------------------------------------------------------- strings

UpperLetters == "ABCDEFGHIJKLMNOPQRSTUVWXYZ"
LowerLetters == "abcdefghijklmnopqrstuvwxyz"

\* the i-th character of s, as a string
CharAt(s, i) == SubSeq(s, i, i)

\* c, or its counterpart in `to` when it is a letter of `from`
MapChar(c, from, to) ==
    IF \E i \in 1..Len(from) : CharAt(from, i) = c
    THEN CharAt(to, CHOOSE i \in 1..Len(from) : CharAt(from, i) = c)
    ELSE c

RECURSIVE MapString(_, _, _)
MapString(s, from, to) ==
    IF s = "" THEN ""
    ELSE MapChar(CharAt(s, 1), from, to) \o MapString(SubSeq(s, 2, Len(s)), from, to)

\* str::to_uppercase and str::to_lowercase, on ASCII text
to_uppercase(s) == MapString(s, LowerLetters, UpperLetters)
to_lowercase(s) == MapString(s, UpperLetters, LowerLetters)

\* ------------------------------------- fmcsa_scanner.rs: check_carrier

\* Option<String>: <<>> is None and <<s>> is Some(s)
None == <<>>
Some(s) == <<s>>
unwrap_or(o, d) == IF o = None THEN d ELSE o[1]

\* Confidences are in hundredths.
\* `match status.as_str()` of a status that is_status_dead
StatusConfidence(status) ==
    CASE status = "REVOKED"        -> 90
      [] status = "OUT OF SERVICE" -> 85
      [] status = "INACTIVE"       -> 80
      [] status = "NOT AUTHORIZED" -> 85
      [] OTHER                     -> 75

\* the three death signals of a QcMobileCarrier
is_status_dead(c) ==
    to_uppercase(unwrap_or(c.status_code, "")) \in
        {"INACTIVE", "REVOKED", "OUT OF SERVICE", "NOT AUTHORIZED"}
has_oos_date(c) == c.oos_date # None /\ c.oos_date[1] # ""
insurance_lapsed(c) ==
    /\ c.insurance_required # None /\ to_uppercase(c.insurance_required[1]) = "Y"
    /\ \/ c.insurance_on_file = None
       \/ to_uppercase(c.insurance_on_file[1]) = "N"
       \/ c.insurance_on_file[1] = ""

NoEvent == [emitted |-> FALSE, confidence |-> 0, chapter |-> "none", dedup_key |-> <<>>]

\* check_carrier from the parsed carrier record on: the death signals, the
\* dedup key and check_and_insert (`fresh` is what it returned), the
\* confidence and the threshold, and the event handed to try_send
check_carrier(dot_number, c, fresh, min_confidence) ==
    LET status == to_uppercase(unwrap_or(c.status_code, ""))
        confidence == IF is_status_dead(c) THEN StatusConfidence(status)
                      ELSE IF insurance_lapsed(c) THEN 70
                      ELSE 65
    IN  IF ~is_status_dead(c) /\ ~has_oos_date(c) /\ ~insurance_lapsed(c) THEN NoEvent
        ELSE IF ~fresh THEN NoEvent
        ELSE IF confidence < min_confidence THEN NoEvent
        ELSE [emitted |-> TRUE, confidence |-> confidence, chapter |-> "Unknown",
              dedup_key |-> <<"fmcsa", dot_number, status>>]

\* the carrier records and thresholds check_carrier is studied with
Carriers ==
    [status_code : {None, Some(""), Some("ACTIVE"), Some("REVOKED"), Some("revoked"),
                    Some("OUT OF SERVICE"), Some("INACTIVE"), Some("NOT AUTHORIZED")},
     oos_date : {None, Some(""), Some("2024-01-15")},
     insurance_required : {None, Some("Y"), Some("y"), Some("N")},
     insurance_on_file : {None, Some(""), Some("N"), Some("n"), Some("Y")}]
Thresholds == {30, 70, 95}

\* --------------------------------------------------------- text_scanner.rs

\* usize::max
Max(a, b) == IF a >= b THEN a ELSE b

\* classify_company once the four automata have counted their matches
classify_hits_BrokerFirst(carrier_hits, broker_hits, tpl_hits, forwarder_hits) ==
    LET max_hits == Max(Max(Max(carrier_hits, broker_hits), tpl_hits), forwarder_hits)
    IN  IF max_hits = 0 THEN "Unclassified"
        ELSE IF broker_hits = max_hits THEN "Broker"
        ELSE IF carrier_hits = max_hits THEN "Carrier"
        ELSE IF tpl_hits = max_hits THEN "ThirdPartyLogistics"
        ELSE "FreightForwarder"
classify_hits(carrier_hits, broker_hits, tpl_hits, forwarder_hits) ==
    LET max_hits == Max(Max(Max(carrier_hits, broker_hits), tpl_hits), forwarder_hits)
    IN  IF max_hits = 0 THEN "Unclassified"
        ELSE IF carrier_hits = max_hits THEN "Carrier"
        ELSE IF broker_hits = max_hits THEN "Broker"
        ELSE IF tpl_hits = max_hits THEN "ThirdPartyLogistics"
        ELSE "FreightForwarder"

\* the lexicon of FREIGHT_AUTOMATON: freight terms and bankruptcy terms
FREIGHT_KEYWORDS ==
    {"freight", "trucking", "carrier", "logistics", "transportation",
     "shipping", "hauling", "drayage", "intermodal", "ltl", "truckload",
     "less than truckload", "full truckload", "flatbed", "reefer",
     "refrigerated", "tanker", "dry van", "container", "trailer", "tractor",
     "semi", "18 wheeler", "eighteen wheeler", "motor carrier",
     "common carrier", "contract carrier", "freight broker",
     "freight forwarder", "3pl", "third party logistics",
     "third-party logistics", "supply chain", "warehouse", "warehousing",
     "distribution", "distribution center", "cross dock", "cross-dock",
     "last mile", "last-mile", "first mile", "middle mile", "linehaul",
     "line haul", "line-haul", "dispatch", "dispatcher", "load board",
     "dot number", "usdot", "mc number", "fmcsa", "operating authority",
     "broker authority", "cdl", "commercial driver", "owner operator",
     "owner-operator", "deadhead", "bobtail", "lumper", "bill of lading",
     "bol", "pod", "proof of delivery", "freight class", "nmfc", "stcc",
     "ata ", "ooida", "tia", "chapter 7", "chapter 11", "chapter 13",
     "bankruptcy", "bankrupt", "insolvency", "insolvent", "liquidation",
     "reorganization", "creditor", "debtor", "filing", "petition",
     "receivership", "dissolution", "wind down", "cease operations",
     "ceased operations", "going concern", "material uncertainty"}

\* the lexicons of the four class automata
CARRIER_KEYWORDS ==
    {"motor carrier", "common carrier", "contract carrier",
     "trucking company", "trucking", "carrier", "fleet", "cdl", "driver",
     "owner operator", "tractor", "trailer", "dot number", "usdot"}
BROKER_KEYWORDS ==
    {"freight broker", "brokerage", "broker authority", "load board",
     "intermediary", "tia"}
TPL_KEYWORDS ==
    {"3pl", "third party logistics", "third-party logistics", "warehouse",
     "warehousing", "distribution center", "fulfillment"}
FORWARDER_KEYWORDS ==
    {"freight forwarder", "forwarding", "customs", "import", "export",
     "international shipping", "ocean freight", "air freight", "nvocc"}

\* memchr::memmem::find(text.as_bytes(), pat).is_some()
memmem_find(text, pat) ==
    \E i \in 1..(Len(text) - Len(pat) + 1) : SubSeq(text, i, i + Len(pat) - 1) = pat

\* the byte patterns scan_text looks for before it runs the automaton
ScanMarkers ==
    {"freight", "truck", "carrier", "bankrupt", "chapter", "logistics", "Freight",
     "Truck", "Carrier", "Bankrupt", "FREIGHT", "TRUCK"}
has_potential_Always(text) == TRUE
has_potential(text) == \E pat \in ScanMarkers : memmem_find(text, pat)

\* the byte patterns of quick_freight_check
QuickMarkers ==
    {"freight", "Freight", "FREIGHT", "truck", "Truck", "carrier", "Carrier",
     "logistics", "Logistics", "3pl", "3PL", "broker", "Broker"}
quick_freight_check(text) == \E pat \in QuickMarkers : memmem_find(text, pat)

\* the patterns of `pats` that, ASCII case ignored, end at position e of the
\* text and begin at `from` or later
EndingAt(lower, pats, from, e) ==
    {p \in pats : e - Len(p) + 1 >= from /\ SubSeq(lower, e - Len(p) + 1, e) = p}

\* the longest pattern of a non-empty set
Longest(ps) == CHOOSE p \in ps : \A q \in ps : Len(q) <= Len(p)

\* AhoCorasick::find_iter with ascii_case_insensitive and the default match
\* kind: the non-overlapping matches from left to right, each reported where
\* the first pattern ends; the search goes on after the match. The matched
\* patterns, in order.
RECURSIVE find_from(_, _, _)
find_from(lower, pats, from) ==
    LET ends == {e \in from..Len(lower) : EndingAt(lower, pats, from, e) # {}} IN
    IF ends = {} THEN <<>>
    ELSE LET e == CHOOSE x \in ends : \A y \in ends : x <= y
         IN  <<Longest(EndingAt(lower, pats, from, e))>> \o find_from(lower, pats, e + 1)
find_iter(pats, text) == find_from(to_lowercase(text), pats, 1)

\* classify_company
classify_company(text) ==
    classify_hits(Len(find_iter(CARRIER_KEYWORDS, text)),
                  Len(find_iter(BROKER_KEYWORDS, text)),
                  Len(find_iter(TPL_KEYWORDS, text)),
                  Len(find_iter(FORWARDER_KEYWORDS, text)))

\* text.split_whitespace().count(): the words begin where a character that is
\* no space follows a space or the start of the text
split_whitespace_count(text) ==
    Cardinality({i \in 1..Len(text) :
                    CharAt(text, i) # " " /\ (i = 1 \/ CharAt(text, i - 1) = " ")})

\* the terms scan_text counts as bankruptcy keywords and as high-signal ones
bankruptcy_terms ==
    {"chapter 7", "chapter 11", "chapter 13", "bankruptcy", "bankrupt", "insolvency",
     "insolvent", "liquidation", "reorganization", "creditor", "debtor", "filing",
     "petition", "receivership", "dissolution", "wind down", "cease operations",
     "going concern"}
high_signal ==
    {"motor carrier", "freight broker", "trucking company", "3pl", "chapter 11",
     "chapter 7", "operating authority"}

\* the result scan_text returns for a text it does not score
ZeroResult ==
    [confidence |-> 0, freight_keyword_hits |-> 0, bankruptcy_keyword_hits |-> 0,
     total_matches |-> 0, classification |-> "Unclassified", matched_keywords |-> {}]

\* scan_text; the confidence is in thousandths, each term rounded down
scan_text(text) ==
    IF text = "" THEN ZeroResult
    ELSE IF ~has_potential(text) THEN ZeroResult
    ELSE LET matches == find_iter(FREIGHT_KEYWORDS, text)
             total_matches == Len(matches)
             matched_keywords == Range(matches)
             bankruptcy_keyword_hits ==
                 Cardinality({k \in matched_keywords :
                                 \E bt \in bankruptcy_terms : memmem_find(k, bt)})
             freight_keyword_hits == total_matches - bankruptcy_keyword_hits
             word_count == Max(split_whitespace_count(text), 1)
             high_signal_count ==
                 Cardinality({k \in matched_keywords :
                                 \E hs \in high_signal : memmem_find(k, hs)})
             confidence ==
                 Min((4000 * Cardinality(matched_keywords)) \div Cardinality(FREIGHT_KEYWORDS),
                     400)
                 + Min((30000 * total_matches) \div word_count, 300)
                 + (IF freight_keyword_hits > 0 /\ bankruptcy_keyword_hits > 0
                    THEN 200 ELSE 0)
                 + Min(50 * high_signal_count, 100)
         IN  IF total_matches = 0 THEN ZeroResult
             ELSE [confidence |-> Min(confidence, 1000),
                   freight_keyword_hits |-> freight_keyword_hits,
                   bankruptcy_keyword_hits |-> bankruptcy_keyword_hits,
                   total_matches |-> total_matches,
                   classification |-> classify_company(text),
                   matched_keywords |-> matched_keywords]

\* The texts the scanner is studied with: up to MaxWords of these words, with
\* a space between them.
Words ==
    {"fox", "shipping", "freight", "FREIGHT", "Chapter 11", "bankruptcy", "3PL",
     "Broker", "LOGISTICS", "truck"}
RECURSIVE TextsOf(_)
TextsOf(n) ==
    IF n = 0 THEN {""}
    ELSE Words \cup {t \o " " \o w : t \in TextsOf(n - 1) \ {""}, w \in Words}
                \cup TextsOf(n - 1)
Texts == TextsOf(MaxWords)

\* ------------------------------- scanners/*.rs: the requests of a cycle

\* the four scanner tasks of main
Pollers == {"pacer", "edgar", "fmcsa", "court_listener"}

\* MONITORED_CARRIERS.len(), and `let batch_size = 3`
NumCarriers == 15
batch_size == 3

\* The requests of one cycle: pacer fetches the feed of every court of
\* PACER_COURTS, fmcsa checks batch_size carriers, edgar and court_listener
\* send one search query.
RequestsPerCycle(k) ==
    CASE k = "pacer" -> NumCourts
      [] k = "fmcsa" -> batch_size
      [] OTHER       -> 1

\* How a request ends: send() fails; a response with status 429, with another
\* non-2xx status, or with a 2xx status; a 2xx response whose body cannot be
\* read.
HttpOutcomes == {"transport", "429", "other", "2xx", "body"}

\* The calls a scanner makes on its breaker for a request that ended with o.
\* pacer: fetch_and_parse_feed is Err for a send error, a non-2xx status and a
\* body error, and run() matches on Ok / Err. fmcsa: check_carrier matches on
\* the result of send() alone, before it looks at the status. edgar and
\* court_listener: record_failure on a send error and on 429, nothing on
\* another non-2xx status, record_success before the body is read.
Recorded_ByStatus(k, o) ==
    CASE o \in {"transport", "429"} -> <<"record_failure">>
      [] o = "other"                -> <<>>
      [] OTHER                      -> <<"record_success">>
Recorded(k, o) ==
    CASE k = "pacer" -> IF o = "2xx" THEN <<"record_success">> ELSE <<"record_failure">>
      [] k = "fmcsa" -> IF o = "transport" THEN <<"record_failure">>
                        ELSE <<"record_success">>
      [] OTHER       -> Recorded_ByStatus(k, o)

\* the breaker after the calls
RECURSIVE ApplyCalls(_, _, _)
ApplyCalls(b, calls, t) ==
    IF calls = <<>> THEN b
    ELSE ApplyCalls(IF Head(calls) = "record_failure" THEN record_failure(b, t)
                    ELSE record_success(b, t),
                    Tail(calls), t)

\* carrier_index.fetch_add(n, Relaxed): the new value (the old one is returned)
fetch_add_One(v, n) == v + 1
fetch_add(v, n) == v + n

\* MONITORED_CARRIERS[(start_idx + i) % MONITORED_CARRIERS.len()]
CarrierAt(start, i) == (start + i) % NumCarriers

NoRequest == [outcome |-> "none", calls |-> <<>>, sentIn |-> "none", cooling |-> FALSE]

\* a scanner after its breaker was built and before its first cycle
IdleReq(k) ==
    /\ poller = k
    /\ req_pc = "select"
    /\ left = 0
    /\ carrier_index = 0
    /\ start_idx = 0
    /\ reqHist = [last |-> NoRequest, begun |-> 0, skipped |-> 0, probed |-> <<>>]

\* no function under study
NotCalled == [fn |-> "none"]
IdleUnit == input = NotCalled /\ output = NotCalled

InitPipe == InitScan /\ InitPub /\ InitMain /\ IdleReq("pacer") /\ IdleUnit

\* ------------------------------------------------ the scanners' actions

\* main: ctrl_c() returns (Ok or Err) and shutdown_tx.send(true)
CtrlC ==
    /\ main_pc = "running"
    /\ shutdown' = TRUE
    /\ main_pc' = "joining"
    /\ mainHist' = [mainHist EXCEPT !.signalAt = now]
    /\ UNCHANGED <<breakerVars, breakerHist, dedupVars, dedupHist, busVars, now, senders,
                   scanVars, pubVars, finished, unitVars>>

\* what a scanner never touches
outsideScan == <<breakerVars, breakerHist, lru_capacity, bloom_writer, pc, key,
                 bloom_says_maybe_seen, dedupHist, received, attempted, dropped, sent, now, shutdown, pubVars,
                 mainVars, unitVars>>

\* the polls begun so far
PollsBegun == scanHist.begun["pacer"] + scanHist.begun["fmcsa"]

\* scanner p moves on; run() returning drops its Sender
Goto(p, to) ==
    /\ scan_pc' = [scan_pc EXCEPT ![p] = to]
    /\ senders' = IF to = "exited" THEN senders \ {p} ELSE senders

\* select! takes the branch `_ = shutdown.changed() => break`
Break(p) ==
    /\ scan_pc[p] = "select"
    /\ Changed(shutdown)
    /\ Goto(p, "exited")
    /\ UNCHANGED <<circuit_breaker, items, scanHist, bloom, lru_cache, last_rotation,
                   stats, bus, outsideScan>>

\* The sleep(poll_interval) of a suspended scanner completes and select! takes
\* the branch `_ = sleep(poll_interval) =>`; when shutdown.changed() is ready
\* too, select! takes either branch. The breaker is asked, and a refusal is
\* `continue`. At most `limit` polls are followed.
BeginPollWithin(p, limit) ==
    /\ scan_pc[p] = "select"
    /\ PollsBegun < limit
    /\ LET r == allow_request(circuit_breaker[p], now) IN
       /\ circuit_breaker' = [circuit_breaker EXCEPT ![p] = r.inner]
       /\ Goto(p, IF r.ret THEN "fetch" ELSE Reselect(shutdown))
    /\ scanHist' = [scanHist EXCEPT !.begun[p] = @ + 1,
                                    !.late[p] = IF shutdown THEN @ + 1 ELSE @]
    /\ UNCHANGED <<items, bloom, lru_cache, last_rotation, stats, bus, outsideScan>>

\* the HTTP request returns (the client has a timeout): an error is
\* record_failure and the end of the poll, a response is record_success
Fetch(p) ==
    /\ scan_pc[p] = "fetch"
    /\ \/ /\ circuit_breaker' =
                [circuit_breaker EXCEPT ![p] = record_failure(circuit_breaker[p], now)]
          /\ items' = items
          /\ Goto(p, Reselect(shutdown))
       \/ \E resp \in Rest(p, MaxItems) :
          /\ circuit_breaker' =
                [circuit_breaker EXCEPT ![p] = record_success(circuit_breaker[p], now)]
          /\ items' = [items EXCEPT ![p] = resp]
          /\ Goto(p, IF resp = NoItems THEN Reselect(shutdown) ELSE "items")
    /\ UNCHANGED <<scanHist, bloom, lru_cache, last_rotation, stats, bus, outsideScan>>

\* the next item of the response goes through the gates and try_send; after
\* the last item the poll is over
NextItem(p) ==
    /\ scan_pc[p] = "items"
    /\ LET it == Head(items[p].at)
           r == process_item(p, it.key, it.confident, TheDedup, bus, now) IN
       /\ r.tried => SendReturns(bus)
       /\ bloom' = r.dedup.bloom
       /\ lru_cache' = r.dedup.lru_cache
       /\ last_rotation' = r.dedup.last_rotation
       /\ stats' = r.dedup.stats
       /\ bus' = r.queue
       /\ scanHist' = [scanHist EXCEPT
              !.lost = IF r.tried
                       THEN IF r.ok THEN {l \in @ : l[1] # it.key}
                            ELSE @ \cup {<<it.key, scanHist.begun[p]>>}
                       ELSE @,
              !.suppressed =
                    IF /\ it.confident /\ r.asked /\ ~r.fresh /\ ~ChannelFull(bus)
                       /\ \E l \in scanHist.lost : l[1] = it.key /\ l[2] < scanHist.begun[p]
                    THEN @ \cup {it.key}
                    ELSE @]
    /\ \E rest \in Rest(p, items[p].more) :
       /\ items' = [items EXCEPT ![p] = rest]
       /\ Goto(p, IF rest = NoItems THEN Reselect(shutdown) ELSE "items")
    /\ UNCHANGED <<circuit_breaker, outsideScan>>

\* the publisher takes an event off the channel
PublisherTakes ==
    /\ bus # <<>>
    /\ bus' = Tail(bus)
    /\ UNCHANGED <<breakerVars, breakerHist, dedupVars, dedupHist, received, attempted,
                   dropped, sent, now, pipeVars>>

BeginPoll(p) == BeginPollWithin(p, MaxCycles)

\* the first polls only
BeginEarlyPoll(p) == BeginPollWithin(p, MaxLivePolls)

ScannerStep(p) ==
    \/ Break(p)
    \/ BeginPoll(p)
    \/ Fetch(p)
    \/ NextItem(p)

\* the scanners within one reading of the clock
NextScan ==
    \/ CtrlC
    \/ PublisherTakes
    \/ \E p \in Scanners : ScannerStep(p)

EarlyScannerStep(p) ==
    \/ Break(p)
    \/ BeginEarlyPoll(p)
    \/ Fetch(p)
    \/ NextItem(p)

NextEarlyScan ==
    \/ CtrlC
    \/ PublisherTakes
    \/ \E p \in Scanners : EarlyScannerStep(p)

\* ----------------------------------------------- the publisher's actions
\* The scanners appear here as the holders of the Senders: a scanner sends an
\* event, and after the signal it returns and its Sender is dropped.

\* a scanner: event_tx.try_send(event); the n-th call sends event <<p, n>>
\* run(self) has returned: the publisher and its Receiver, the only one, are
\* dropped, and try_send returns Err(Disconnected)
ReceiverDropped == pub_pc = "exited"

Emit(p) ==
    /\ p \in senders
    /\ attempted < MaxSends
    /\ LET e == <<p, attempted + 1>>
           r == IF ReceiverDropped THEN [queue |-> bus, ok |-> FALSE]
                ELSE try_send(bus, e) IN
       /\ attempted' = attempted + 1
       /\ bus' = r.queue
       /\ dropped' = IF r.ok THEN dropped ELSE dropped \cup {e}
       /\ sent' = [event |-> e, ok |-> r.ok, pre |-> bus, post |-> r.queue,
                   dropped |-> dropped]
    /\ UNCHANGED <<breakerVars, breakerHist, dedupVars, dedupHist, received, now,
                   pipeVars>>

\* a scanner takes the shutdown branch of its select!, returns, and its Sender
\* is dropped
Release(p) ==
    /\ p \in senders
    /\ Changed(shutdown)
    /\ senders' = senders \ {p}
    /\ UNCHANGED <<breakerVars, breakerHist, dedupVars, dedupHist, busVars, now,
                   shutdown, scanVars, pubVars, mainVars, unitVars>>

\* what the publisher never touches
outsidePub == <<breakerVars, breakerHist, dedupVars, dedupHist, received, attempted,
                dropped, sent, now, shutdown, senders, scanVars, mainVars,
                unitVars>>

\* run(): get_multiplexed_async_connection; on Err sleep 5 s and return if the
\* shutdown value is set, else try again
\* the Err arm, after the sleep: `if *self.shutdown.borrow() { return Ok(()) }`,
\* else the loop tries again
AfterFailure_Retry(flag) == "connect"
AfterFailure(flag) == IF flag THEN "exited" ELSE "connect"

Connect ==
    /\ pub_pc = "connect"
    /\ \E connected \in BOOLEAN :
          IF connected
          THEN /\ pub_pc' = "top"
               /\ pubHist' = [pubHist EXCEPT !.attempt = "ok"]
          ELSE /\ pub_pc' = AfterFailure(shutdown)
               /\ pubHist' = [pubHist EXCEPT
                                 !.attempt = "failed", !.seen = shutdown,
                                 !.exit = IF pub_pc' = "exited" THEN "connect" ELSE @]
    /\ UNCHANGED <<batch, pub_stats, published, persisted, bus, outsidePub>>

\* the head of an iteration: `if *self.shutdown.borrow()`, else batch.clear()
Top ==
    /\ pub_pc = "top"
    /\ IF shutdown
       THEN pub_pc' = "drain" /\ batch' = batch
       ELSE pub_pc' = "recv" /\ batch' = Cleared(batch)
    /\ UNCHANGED <<pub_stats, published, persisted, pubHist, bus, outsidePub>>

\* `while batch.len() < BATCH_SIZE { match self.receiver.try_recv() ...`: Ok
\* pushes, Empty breaks (an empty batch sleeps 100 ms and continues), and
\* Disconnected returns Ok(())
Recv ==
    /\ pub_pc = "recv"
    /\ LET r == try_recv(bus, senders) IN
       CASE r.res = "ok" ->
              /\ batch' = Append(batch, r.event)
              /\ bus' = r.queue
              /\ pub_pc' = IF Len(batch) + 1 >= BATCH_SIZE THEN "publish" ELSE "recv"
              /\ pubHist' = [pubHist EXCEPT !.taken = @ \cup {r.event}]
         [] r.res = "empty" ->
              /\ pub_pc' = IF batch = <<>> THEN "top" ELSE "publish"
              /\ UNCHANGED <<batch, bus, pubHist>>
         [] r.res = "disconnected" ->
              /\ pub_pc' = "exited"
              /\ pubHist' = [pubHist EXCEPT !.exit = "disconnected",
                                            !.discarded = Range(batch)]
              /\ UNCHANGED <<batch, bus>>
    /\ UNCHANGED <<pub_stats, published, persisted, outsidePub>>

\* the history after publish_batch(b) returned r
Handed(h, b, r) ==
    [h EXCEPT !.handed = @ \o b,
              !.failed = IF r.ok THEN @ ELSE @ \cup Range(b),
              !.again = @ \/ (Range(b) \cap h.failed # {}),
              !.unpublished = IF r.ok THEN @ ELSE @ + (Len(b) - Len(r.persisted)),
              !.failures = IF r.ok THEN @ ELSE @ + 1]

\* `if let Err(e) = self.publish_batch(&mut con, &batch).await`, in the loop:
\* on Err publish_errors grows by batch.len()
Publish ==
    /\ pub_pc = "publish"
    /\ \E o \in Outcomes(batch) :
          LET r == publish_batch(batch, o) IN
          /\ published' = published \o r.published
          /\ persisted' = persisted \o r.persisted
          /\ pub_stats' = IF r.ok THEN CountBatch(pub_stats, r)
                          ELSE CountErrors(CountBatch(pub_stats, r), batch)
          /\ pubHist' = Handed(pubHist, batch, r)
    /\ pub_pc' = "top"
    /\ UNCHANGED <<batch, bus, outsidePub>>

\* after the shutdown value was seen: `while let Ok(event) = try_recv()`
Drain ==
    /\ pub_pc = "drain"
    /\ LET r == try_recv(bus, senders) IN
       IF r.res = "ok"
       THEN /\ batch' = Append(batch, r.event)
            /\ bus' = r.queue
            /\ pub_pc' = pub_pc
            /\ pubHist' = [pubHist EXCEPT !.taken = @ \cup {r.event},
                                          !.drained = Append(@, r.event)]
       ELSE /\ pub_pc' = IF batch = <<>> THEN "exited" ELSE "last_publish"
            /\ pubHist' = IF batch = <<>> THEN [pubHist EXCEPT !.exit = "shutdown"]
                          ELSE pubHist
            /\ UNCHANGED <<batch, bus>>
    /\ UNCHANGED <<pub_stats, published, persisted, outsidePub>>

\* `if !batch.is_empty()`: the final publish_batch, whose Err is only logged;
\* then return Ok(())
LastPublish ==
    /\ pub_pc = "last_publish"
    /\ \E o \in Outcomes(batch) :
          LET r == publish_batch(batch, o) IN
          /\ published' = published \o r.published
          /\ persisted' = persisted \o r.persisted
          /\ pub_stats' = CountBatch(pub_stats, r)
          /\ pubHist' = [Handed(pubHist, batch, r) EXCEPT !.exit = "shutdown",
                                                          !.final = batch]
    /\ pub_pc' = "exited"
    /\ UNCHANGED <<batch, bus, outsidePub>>

NextPub ==
    \/ CtrlC
    \/ \E p \in Scanners : Emit(p)
    \/ \E p \in Scanners : Release(p)
    \/ Connect
    \/ Top
    \/ Recv
    \/ Publish
    \/ Drain
    \/ LastPublish

\* ------------------------------------------- main's wait for the tasks

\* what the wait of main never touches
outsideMain == <<breakerVars, breakerHist, dedupVars, dedupHist, busVars, senders,
                 scanVars, pubVars, unitVars>>

\* one of the six spawned tasks returns: its JoinHandle becomes ready
TaskFinishes(i) ==
    /\ i \in Tasks \ finished
    /\ finished' = finished \cup {i}
    /\ mainHist' = IF finished' = Tasks THEN [mainHist EXCEPT !.allDoneAt = now]
                   ELSE mainHist
    /\ UNCHANGED <<shutdown, main_pc, now, outsideMain>>

\* timeout(10 s, join!(...)).await returns, Ok when every handle was joined
\* and Err(Elapsed) otherwise; main logs and returns
Return ==
    /\ main_pc = "joining"
    /\ WaitOver(finished, mainHist.signalAt, now)
    /\ main_pc' = "returned"
    /\ mainHist' = [mainHist EXCEPT !.returnedAt = now, !.joined = (finished = Tasks)]
    /\ UNCHANGED <<shutdown, finished, now, outsideMain>>

\* Time passes, but not while the timeout future main awaits is ready.
MainTick ==
    /\ now < MaxTime
    /\ ~(main_pc = "joining" /\ WaitOver(finished, mainHist.signalAt, now))
    /\ now' = now + 1
    /\ UNCHANGED <<shutdown, mainVars, outsideMain>>

NextMain ==
    \/ CtrlC
    \/ \E i \in Tasks : TaskFinishes(i)
    \/ Return
    \/ MainTick

\* ------------------------------------------ the requests of one scanner

\* what a scanner's requests never touch
outsideReq == <<failure_threshold, success_threshold, reset_timeout, breakerHist,
                dedupVars, dedupHist, busVars, shutdown, senders, scanVars, pubVars,
                mainVars, poller, now, input, output>>

\* select! takes the sleep branch: allow_request, `continue` when it refuses;
\* fmcsa then takes its batch with carrier_index.fetch_add(batch_size)
Wake ==
    /\ req_pc = "select"
    /\ reqHist.begun < MaxPolls
    /\ LET r == allow_request(inner, now) IN
       /\ inner' = r.inner
       /\ IF r.ret
          THEN /\ req_pc' = "sending"
               /\ left' = RequestsPerCycle(poller)
               /\ start_idx' = IF poller = "fmcsa" THEN carrier_index ELSE start_idx
               /\ carrier_index' = IF poller = "fmcsa"
                                   THEN fetch_add(carrier_index, batch_size)
                                   ELSE carrier_index
               /\ reqHist' = [reqHist EXCEPT !.begun = @ + 1]
          ELSE /\ UNCHANGED <<req_pc, left, start_idx, carrier_index>>
               /\ reqHist' = [reqHist EXCEPT !.begun = @ + 1, !.skipped = @ + 1]
    /\ UNCHANGED outsideReq

\* the next request of the cycle is sent and ends; the breaker is told
Request ==
    /\ req_pc = "sending"
    /\ \E o \in HttpOutcomes :
          LET calls == Recorded(poller, o) IN
          /\ inner' = ApplyCalls(inner, calls, now)
          /\ reqHist' = [reqHist EXCEPT
                 !.last = [outcome |-> o, calls |-> calls, sentIn |-> inner.state,
                          cooling |-> /\ inner.state = "Open"
                                      /\ ~TimeoutExpired(inner.last_failure_time, now)],
                 !.probed = IF poller = "fmcsa"
                            THEN Append(@, CarrierAt(start_idx, batch_size - left))
                            ELSE @]
    /\ left' = left - 1
    /\ req_pc' = IF left = 1 THEN "select" ELSE "sending"
    /\ UNCHANGED <<carrier_index, start_idx, outsideReq>>

NextRequests ==
    \/ Wake
    \/ Request
    \/ BreakerTick

\* ------------------------------------------------- a function on its own

\* what a function call leaves alone
outsideUnit == <<breakerVars, breakerHist, dedupVars, dedupHist, busVars, now, shutdown,
                 senders, scanVars, pubVars, mainVars, reqVars>>

\* check_carrier is called with a parsed carrier record
CheckCarrier ==
    /\ input.fn = "check_carrier" /\ output = NotCalled
    /\ output' = check_carrier(input.dot_number, input.carrier, input.fresh,
                               input.min_confidence)
    /\ UNCHANGED <<input, outsideUnit>>

\* classify_company has counted the matches of the four automata
Classify ==
    /\ input.fn = "classify_company" /\ output = NotCalled
    /\ output' = [classification |->
                      classify_hits(input.carrier_hits, input.broker_hits,
                                    input.tpl_hits, input.forwarder_hits)]
    /\ UNCHANGED <<input, outsideUnit>>

\* scan_text(text) returns
Scan ==
    /\ input.fn = "scan_text" /\ output.scan = None
    /\ output' = [output EXCEPT !.scan = Some(scan_text(input.text))]
    /\ UNCHANGED <<input, outsideUnit>>

\* quick_freight_check(text) returns
QuickCheck ==
    /\ input.fn = "scan_text" /\ output.quick = None
    /\ output' = [output EXCEPT !.quick = Some(quick_freight_check(input.text))]
    /\ UNCHANGED <<input, outsideUnit>>

NextText ==
    \/ Scan
    \/ QuickCheck

\* the components as main constructs them, with the configured breaker settings
Init == now = 0 /\ IdleBreaker /\ InitDedup /\ InitBus /\ InitPipe

\* the same, for every breaker setting within the bounds
InitAnyBreaker == now = 0 /\ InitBreaker /\ InitDedup /\ InitBus /\ InitPipe

SpecBreaker == InitAnyBreaker /\ [][NextBreaker]_vars
SpecDedup == Init /\ [][NextDedup]_vars
SpecDedupSeq == Init /\ [][NextDedupSeq]_vars

\* concurrent callers, each of them a thread that keeps running: a caller whose
\* next step stays possible takes it
SpecDedupLive == Init /\ [][NextDedup]_vars /\ \A t \in Callers : WF_vars(Step(t))

\* sequential callers of an engine built with any lru_capacity, 0 included
InitAnyCapacity ==
    /\ now = 0 /\ IdleBreaker /\ InitBus /\ InitPipe
    /\ \E capacity \in 0..CacheCapacity : NewDedup(capacity)
SpecDedupAnyCapacity == InitAnyCapacity /\ [][NextDedupSeq]_vars
SpecBus == Init /\ [][NextBus]_vars

SpecPub == Init /\ [][NextPub]_vars

SpecMain == Init /\ [][NextMain]_vars

\* one scanner of any of the four kinds, with any breaker setting in the bounds
InitRequests ==
    /\ now = 0 /\ InitBreaker /\ InitDedup /\ InitBus
    /\ InitScan /\ InitPub /\ InitMain /\ IdleUnit
    /\ \E k \in Pollers : IdleReq(k)

SpecRequests == InitRequests /\ [][NextRequests]_vars

\* everything but the function under study, as main constructs it
InitUnit ==
    /\ now = 0 /\ IdleBreaker /\ InitDedup /\ InitBus
    /\ InitScan /\ InitPub /\ InitMain /\ IdleReq("pacer")

\* check_carrier with every carrier record, threshold and dedup answer
InitCarrier ==
    /\ InitUnit
    /\ input \in [fn : {"check_carrier"}, dot_number : {"2239788"}, carrier : Carriers,
                   fresh : BOOLEAN, min_confidence : Thresholds]
    /\ output = NotCalled

SpecCarrier == InitCarrier /\ [][CheckCarrier]_vars

\* classify_company with every tuple of match counts up to MaxHits
InitClassify ==
    /\ InitUnit
    /\ input \in [fn : {"classify_company"}, carrier_hits : 0..MaxHits,
                   broker_hits : 0..MaxHits, tpl_hits : 0..MaxHits,
                   forwarder_hits : 0..MaxHits]
    /\ output = NotCalled

SpecClassify == InitClassify /\ [][Classify]_vars

\* scan_text and quick_freight_check with every text of Texts
InitText ==
    /\ InitUnit
    /\ input \in [fn : {"scan_text"}, text : Texts]
    /\ output = [fn |-> "scan_text", scan |-> None, quick |-> None]

SpecText == InitText /\ [][NextText]_vars

\* the scanners, each breaker with failure_threshold 1 and a reset_timeout of 1
InitScanning == now = 0 /\ NewBreaker(1, 1, 1) /\ InitDedup /\ InitBus /\ InitPipe

SpecScan == InitScanning /\ [][NextScan]_vars

\* the runtime schedules every scanner task, whatever the publisher does
SpecScanLive ==
    /\ InitScanning
    /\ [][NextEarlyScan]_vars
    /\ \A p \in Scanners : WF_vars(EarlyScannerStep(p))

\* ------------------------------------------------- properties of the breaker

\* C1: starting from Closed with failure count 0, fewer than failure_threshold
\* consecutive record_failure calls (no record_success between) leave the breaker
\* Closed and allow_request returns true; the failure_threshold-th such call
\* leaves it Open, and allow_request then returns false as long as reset_timeout
\* has not elapsed since the last failure.
TripsAfterThreshold ==
    /\ (last.op = "record_failure" /\ streak \in 1..(failure_threshold - 1))
          => inner.state = "Closed"
    /\ (last.op = "record_failure" /\ streak = failure_threshold)
          => inner.state = "Open"
    /\ (last.op = "allow_request" /\ streak \in 0..(failure_threshold - 1))
          => (last.ret = TRUE /\ inner.state = "Closed")
    /\ (last.op = "allow_request" /\ streak = failure_threshold
            /\ last.at - inner.last_failure_time < reset_timeout)
          => (last.ret = FALSE /\ inner.state = "Open")

\* C1 witness: a threshold of at least 2 was reached and allow_request refused.
TripsAfterThresholdWitness ==
    /\ last.op = "allow_request"
    /\ failure_threshold >= 2
    /\ streak = failure_threshold
    /\ last.ret = FALSE
    /\ inner.state = "Open"

\* C2: an allow_request made while Open returns false and changes nothing when
\* less than reset_timeout has elapsed since the last recorded failure; once
\* reset_timeout has elapsed it returns true, moves the breaker to HalfOpen and
\* sets the half-open success count to 0.
OpenBlocksUntilTimeout ==
    (last.op = "allow_request" /\ last.pre.state = "Open") =>
        IF last.at - last.pre.last_failure_time < reset_timeout
        THEN last.ret = FALSE /\ inner = last.pre
        ELSE /\ last.ret = TRUE
             /\ inner.state = "HalfOpen"
             /\ inner.success_count = 0

\* C2 witness: the transition to HalfOpen cleared a non-zero success count
\* after a positive timeout.
OpenBlocksUntilTimeoutWitness ==
    /\ last.op = "allow_request"
    /\ last.pre.state = "Open"
    /\ last.pre.success_count > 0
    /\ reset_timeout > 0
    /\ last.ret = TRUE
    /\ inner.state = "HalfOpen"
    /\ inner.success_count = 0

\* C3: in HalfOpen every record_success adds one to the success count; the
\* success_threshold-th success since HalfOpen was entered closes the breaker
\* and zeroes the failure and success counts; fewer successes leave it HalfOpen.
HalfOpenSuccessCloses ==
    (last.op = "record_success" /\ last.pre.state = "HalfOpen") =>
        /\ hoSucc = last.pre.success_count + 1
        /\ hoSucc <= success_threshold
        /\ IF hoSucc = success_threshold
           THEN /\ inner.state = "Closed"
                /\ inner.failure_count = 0
                /\ inner.success_count = 0
           ELSE /\ inner.state = "HalfOpen"
                /\ inner.success_count = hoSucc

\* C3 witness: the second success in HalfOpen closed a breaker whose success
\* count was stale (non-zero) when it was last Open.
HalfOpenSuccessClosesWitness ==
    /\ last.op = "record_success"
    /\ last.pre.state = "HalfOpen"
    /\ success_threshold >= 2
    /\ hoSucc = success_threshold
    /\ inner.state = "Closed"
    /\ inner.total_trips >= 2

\* C4: a record_failure in HalfOpen opens the breaker, adds exactly one trip and
\* stamps the last-failure time with the time of that failure; allow_request
\* then returns false until reset_timeout has elapsed from that failure.
HalfOpenFailureReopens ==
    /\ (last.op = "record_failure" /\ last.pre.state = "HalfOpen") =>
          /\ inner.state = "Open"
          /\ inner.total_trips = last.pre.total_trips + 1
          /\ inner.last_failure_time = last.at
    /\ (last.op = "allow_request" /\ last.pre.state = "Open"
            /\ reopenAt # NoInstant /\ last.at - reopenAt < reset_timeout) =>
          (last.ret = FALSE /\ inner.state = "Open")

\* C4 witness: the breaker was re-opened from HalfOpen and, one tick later,
\* refused a request.
HalfOpenFailureReopensWitness ==
    /\ last.op = "allow_request"
    /\ last.pre.state = "Open"
    /\ reopenAt # NoInstant
    /\ last.at > reopenAt
    /\ last.at - reopenAt < reset_timeout
    /\ inner.last_failure_time = reopenAt
    /\ last.ret = FALSE

\* C5 (as stated): a record_success in Closed zeroes the failure count; the
\* breaker trips from Closed only on the failure_threshold-th failure in a row;
\* the record_failure that follows a record_success in Closed never trips.
SuccessResetsAsStated ==
    /\ (last.op = "record_success" /\ last.pre.state = "Closed") =>
          (inner.state = "Closed" /\ inner.failure_count = 0)
    /\ (last.op = "record_failure" /\ last.pre.state = "Closed" /\ inner.state = "Open") =>
          streak = failure_threshold
    /\ (last.op = "record_failure" /\ last.succReset >= 0) =>
          inner.state = "Closed"

\* C5 (amended): as above, but the record_failure that follows a record_success
\* in Closed does not trip only when failure_threshold is at least 2 (with a
\* threshold of 1 every failure in Closed trips).
SuccessResets ==
    /\ (last.op = "record_success" /\ last.pre.state = "Closed") =>
          (inner.state = "Closed" /\ inner.failure_count = 0)
    /\ (last.op = "record_failure" /\ last.pre.state = "Closed" /\ inner.state = "Open") =>
          streak = failure_threshold
    /\ (last.op = "record_failure" /\ last.succReset >= 0 /\ failure_threshold >= 2) =>
          inner.state = "Closed"

\* C5 witness: a success cleared failure_threshold - 1 failures and the next
\* failure left the breaker Closed.
SuccessResetsWitness ==
    /\ last.op = "record_failure"
    /\ failure_threshold >= 2
    /\ last.succReset = failure_threshold - 1
    /\ inner.state = "Closed"
    /\ inner.failure_count = 1

\* --------------------------------------------- properties of the deduplicator

\* the caller has left maybe_rotate and is in the rest of check_and_insert
PastRotation(t) == pc[t] \in {"bloom_check", "lru_get", "bloom_set", "lru_put"}

OneWinnerPerKey ==
    (stats.rotations = 0 /\ now < RotationInterval /\ Len(lru_cache) < CacheCapacity) =>
        \A k \in Keys : accepted[k] <= 1

\* C8: every rotation happens a full rotation interval after the one before it
\* (so callers that saw the same stale last_rotation rotate once between them,
\* and rotations grows by one for that interval), and a caller that saw a stale
\* last_rotation leaves maybe_rotate only after a rotation has replaced it.
RotationRaceFree ==
    /\ stats.rotations * RotationInterval <= last_rotation
    /\ last_rotation <= now
    /\ \A t \in Callers :
          (PastRotation(t) /\ obs[t] # NoInstant) =>
              last_rotation >= obs[t] + RotationInterval

\* C8 witness: two callers saw the same stale last_rotation, both have left
\* maybe_rotate, and one rotation was counted.
RotationRaceFreeWitness ==
    \E t, u \in Callers :
        /\ t # u
        /\ obs[t] # NoInstant
        /\ obs[t] = obs[u]
        /\ PastRotation(t)
        /\ PastRotation(u)
        /\ stats.rotations = 1

\* C9: a call whose key was never passed to check_and_insert before, nor by a
\* concurrent call, returns true, whatever the filter answered and whatever
\* calls with other keys came before or ran alongside.
DistinctKeysIndependent == done.solo => done.ret = "true"

\* C9 witness: the second of two distinct new keys was accepted although the
\* filter answered "possibly present" for it.
DistinctKeysIndependentWitness ==
    /\ done.solo
    /\ done.maybe
    /\ done.ret = "true"
    /\ \E k \in Keys : k # done.key /\ accepted[k] = 1
    /\ accepted[done.key] = 1

\* --------------------------------------------------- properties of the channel

\* C10: the channel never holds more than its capacity; a try_send on a full
\* channel fails, drops only the event being sent and leaves the queue as it
\* was; while nothing has been received, the queue holds the first capacity
\* events in order and every event sent after them was dropped.
BusBounded ==
    /\ Len(bus) <= BusCapacity
    /\ (sent.event # 0 /\ Len(sent.pre) = BusCapacity) =>
          /\ sent.ok = FALSE
          /\ dropped = sent.dropped \cup {sent.event}
          /\ sent.post = sent.pre
    /\ (sent.event # 0 /\ Len(sent.pre) < BusCapacity) =>
          /\ sent.ok = TRUE
          /\ sent.post = Append(sent.pre, sent.event)
          /\ dropped = sent.dropped
    /\ received = <<>> =>
          /\ bus = [i \in 1..Min(attempted, BusCapacity) |-> i]
          /\ dropped = (BusCapacity + 1)..attempted

\* C10 witness: with no event received, two events more than the capacity were
\* sent and exactly those two were dropped.
BusBoundedWitness ==
    /\ received = <<>>
    /\ attempted = BusCapacity + 2
    /\ Cardinality(dropped) = 2
    /\ Len(bus) = BusCapacity
    /\ sent.ok = FALSE

\* ------------------------------------------------ properties of the scanners

\* C11: a scanner is never blocked by the channel. When the channel is full the
\* scanner's step on an item leaves the queue as it is (the event is dropped)
\* and the scanner goes on, and every poll that was begun comes to its end
\* whether or not the publisher ever takes an event.
NeverBlockedByBus ==
    /\ [][\A p \in Scanners :
            (scan_pc[p] = "items" /\ items'[p] # items[p] /\ ChannelFull(bus))
                => bus' = bus]_vars
    /\ \A p \in Scanners :
            (scan_pc[p] \in {"fetch", "items"}) ~> (scan_pc[p] \in {"select", "exited"})

\* an event was dropped on the full channel and its scanner is at the next
\* item of the same response
NeverBlockedByBusWitness ==
    \E p \in Scanners :
        /\ scan_pc[p] = "items"
        /\ ChannelFull(bus)
        /\ (\E l \in scanHist.lost : l[1] \in KeysOf(p))

\* ----------------------------------------------- properties of the publisher

\* C12: when every Sender has been dropped and the publisher returns because
\* the channel is disconnected, the channel is empty and every event the
\* publisher took off the channel was handed to publish_batch.
DrainsBeforeClosing ==
    pubHist.exit = "disconnected" =>
        /\ bus = <<>>
        /\ pubHist.taken \subseteq Range(pubHist.handed)

\* C13: when the publisher sees the shutdown value it takes every event left
\* in the channel, and the one final publish_batch is handed exactly the events
\* taken then.
FinalBatchIsRemainder ==
    pubHist.exit = "shutdown" => pubHist.final = pubHist.drained

\* C14: a batch whose publish_batch failed is never handed to publish_batch
\* again.
FailedBatchNotResent == ~pubHist.again

\* C15: publish_errors is the number of events that a failed publish_batch
\* left unpublished (not both PUBLISHed and ZADDed by that call), the final
\* batch of a shutdown included.
ErrorsCountFailedItems ==
    pub_pc \in {"top", "exited"} => pub_stats.publish_errors = pubHist.unpublished

\* where an event first occurs in a log
FirstAt(log, e) == CHOOSE i \in 1..Len(log) : log[i] = e /\ \A j \in 1..(i - 1) : log[j] # e

\* the events of one scanner stand in a queue in the order they were sent
InSendOrder(q) ==
    \A i, j \in 1..Len(q) : (i < j /\ q[i][1] = q[j][1]) => q[i][2] < q[j][2]

AllScannersExited == \A p \in Scanners : scan_pc[p] = "exited" /\ p \notin senders

\* C17 (as stated): after shutdown_tx.send(true) no scanner asks its breaker or
\* fetches for a new poll, and every scanner returns, dropping its Sender.
StopsAtCurrentPollAsStated ==
    /\ [](\A p \in Scanners : scanHist.late[p] = 0)
    /\ shutdown ~> AllScannersExited

\* C17 (amended): after shutdown_tx.send(true) a scanner begins at most one
\* more poll (select! may take the sleep branch when the sleep has completed
\* and shutdown.changed() is ready too), never a poll after having finished
\* one, and every scanner returns, dropping its Sender.
StopsAtCurrentPoll ==
    /\ [](\A p \in Scanners : scanHist.late[p] <= 1)
    /\ [][\A p \in Scanners :
            (shutdown /\ scan_pc[p] # "select") => scan_pc'[p] # "select"]_vars
    /\ shutdown ~> AllScannersExited

\* C17 witness: every scanner has returned; one of them began a poll after the
\* signal and the other did not
StopsAtCurrentPollWitness ==
    /\ shutdown
    /\ AllScannersExited
    /\ \E p, q \in Scanners :
        /\ scanHist.late[p] = 1
        /\ scanHist.late[q] = 0 /\ scanHist.begun[q] > 0

\* the later of two instants
Later(a, b) == IF a >= b THEN a ELSE b

\* C18: main waits only after shutdown_tx.send(true), never longer than the
\* grace period after it whether or not the tasks have returned, and when all
\* six handles were joined it returned at the instant the last one was ready.
BoundedWait ==
    /\ main_pc # "running" => shutdown
    /\ main_pc = "joining" => now - mainHist.signalAt <= GracePeriod
    /\ main_pc = "returned" =>
        /\ mainHist.returnedAt - mainHist.signalAt <= GracePeriod
        /\ ~mainHist.joined => mainHist.returnedAt - mainHist.signalAt = GracePeriod
        /\ mainHist.joined =>
                mainHist.returnedAt = Later(mainHist.signalAt, mainHist.allDoneAt)

\* C18 witness: main returned a grace period after the signal although a task
\* had not returned
BoundedWaitWitness ==
    /\ main_pc = "returned"
    /\ finished # Tasks
    /\ mainHist.signalAt > 0
    /\ mainHist.returnedAt = mainHist.signalAt + GracePeriod

\* C19 (as stated): a record whose event was dropped by try_send on a full
\* channel is not turned away as a duplicate by check_and_insert when it
\* comes again, with the gates passed, in the response of a later poll, at a
\* time the channel has room.
DropDoesNotSuppress == scanHist.suppressed = {}

\* scanner p has gone through the item it had come to
Processed(p) == scan_pc[p] = "items" /\ items'[p] # items[p]

FailuresRecorded ==
    reqHist.last.outcome \in {"transport", "429"} =>
        reqHist.last.calls = <<"record_failure">>

\* C22 (as stated): a response with a non-2xx status other than 429 makes the
\* scanner call nothing on its breaker, and record_success is called only for
\* a response with a 2xx status.
OtherStatusIgnored ==
    /\ reqHist.last.outcome = "other" => reqHist.last.calls = <<>>
    /\ "record_success" \in Range(reqHist.last.calls) =>
            reqHist.last.outcome \in {"2xx", "body"}

\* C23 (as stated): no request is sent while the scanner's breaker is Open and
\* reset_timeout has not elapsed since the failure it recorded last.
NoRequestWhileOpen == ~reqHist.last.cooling

\* C25: fmcsa probes the watch list in order, batch_size carriers per cycle it
\* carries out, each cycle from where the one before stopped and wrapping at
\* the end of the list (so NumCarriers / batch_size cycles in a row probe every
\* carrier once); a cycle the breaker refuses leaves carrier_index alone.
RoundRobin ==
    /\ [](poller = "fmcsa" =>
            /\ \A n \in 1..Len(reqHist.probed) : reqHist.probed[n] = (n - 1) % NumCarriers
            /\ req_pc = "select" =>
                    Len(reqHist.probed) = batch_size * (reqHist.begun - reqHist.skipped))
    /\ [][reqHist'.skipped # reqHist.skipped =>
                carrier_index' = carrier_index /\ reqHist'.probed = reqHist.probed]_vars

\* C25 witness: after a refused cycle and more than a full pass of the list,
\* fmcsa has come back to the first carrier
RoundRobinWitness ==
    /\ poller = "fmcsa"
    /\ reqHist.skipped > 0
    /\ Len(reqHist.probed) > NumCarriers
    /\ req_pc = "select"

\* ------------------------------------------- properties of check_carrier

\* the confidence the policy table gives a carrier record: by status for the
\* four dead statuses, 70 when the insurance lapse is the signal, 75 for
\* another status
PolicyValues(c) ==
    IF is_status_dead(c)
    THEN {StatusConfidence(to_uppercase(unwrap_or(c.status_code, "")))}
    ELSE IF insurance_lapsed(c) THEN IF has_oos_date(c) THEN {70, 75} ELSE {70}
    ELSE {75}

\* C24 (as stated): check_carrier hands over an event only for a carrier
\* record with a death signal, with the confidence of the policy table and
\* chapter Unknown.
FmcsaPolicy ==
    (input.fn = "check_carrier" /\ output # NotCalled /\ output.emitted) =>
        /\ is_status_dead(input.carrier) \/ has_oos_date(input.carrier)
                \/ insurance_lapsed(input.carrier)
        /\ output.confidence \in PolicyValues(input.carrier)
        /\ output.chapter = "Unknown"

\* ----------------------------------------- properties of the text scanner

\* the counts of the classes that come before class n in the order Carrier,
\* Broker, ThirdPartyLogistics, FreightForwarder, and the count of class n
HitsOf(n) == <<input.carrier_hits, input.broker_hits, input.tpl_hits,
               input.forwarder_hits>>[n]
ClassNames == <<"Carrier", "Broker", "ThirdPartyLogistics", "FreightForwarder">>

\* C26: classify_company returns Unclassified exactly when the four counts
\* are zero; otherwise it returns a class whose count is the largest of the
\* four, and no class before it in the order Carrier, Broker,
\* ThirdPartyLogistics, FreightForwarder has that count.
ClassifiesByMaximum ==
    (input.fn = "classify_company" /\ output # NotCalled) =>
        /\ output.classification = "Unclassified" <=> \A n \in 1..4 : HitsOf(n) = 0
        /\ \A n \in 1..4 : output.classification = ClassNames[n] =>
                /\ \A m \in 1..4 : HitsOf(m) <= HitsOf(n)
                /\ \A m \in 1..(n - 1) : HitsOf(m) < HitsOf(n)
        /\ output.classification \in Range(ClassNames) \cup {"Unclassified"}

\* C26 witness: Broker was returned on a tie with ThirdPartyLogistics and
\* FreightForwarder, with fewer Carrier matches
ClassifiesByMaximumWitness ==
    /\ input.fn = "classify_company"
    /\ output # NotCalled
    /\ output.classification = "Broker"
    /\ input.tpl_hits = input.broker_hits
    /\ input.forwarder_hits = input.broker_hits
    /\ input.carrier_hits > 0

\* the byte patterns either function looks for
Markers == ScanMarkers \cup QuickMarkers
NoMarker(text) == \A pat \in Markers : ~memmem_find(text, pat)

\* C27: for the empty text and for every text in which no marker occurs,
\* scan_text returns the zero result (confidence 0, Unclassified, no matched
\* keywords, all counts 0) and quick_freight_check returns false.
ZeroWithoutMarker ==
    (input.fn = "scan_text" /\ NoMarker(input.text)) =>
        /\ output.scan # None => output.scan[1] = ZeroResult
        /\ output.quick # None => output.quick[1] = FALSE

\* C27 witness: both functions have returned for a text that is not empty, in
\* which no marker occurs and the automaton would find a keyword of the lexicon
ZeroWithoutMarkerWitness ==
    /\ input.fn = "scan_text"
    /\ input.text = "fox shipping"
    /\ NoMarker(input.text)
    /\ find_iter(FREIGHT_KEYWORDS, input.text) # <<>>
    /\ output.scan # None /\ output.quick # None

\* C28: the publisher takes nothing from the bus before a connection attempt
\* has succeeded; after a failed attempt it is back in the connection loop
\* when the shutdown value it then read was unset, and it has returned,
\* without having taken anything, when that value was set.
StartupRetry ==
    /\ pubHist.attempt # "ok" => pubHist.taken = {} /\ batch = <<>>
    /\ pubHist.attempt = "failed" =>
          IF pubHist.seen
          THEN pub_pc = "exited" /\ pubHist.exit = "connect"
          ELSE pub_pc = "connect"
    /\ pubHist.exit = "connect" => shutdown

\* C28 witness: the publisher returned from the connection loop after a
\* failed attempt, with events waiting on the bus that it never took
StartupRetryWitness ==
    /\ pub_pc = "exited" /\ pubHist.exit = "connect"
    /\ pubHist.attempt = "failed" /\ pubHist.seen
    /\ bus # <<>>
    /\ pubHist.taken = {}

\* how often e occurs in the sequence q
Occurrences(q, e) == Cardinality({i \in 1..Len(q) : q[i] = e})

\* C29: an event reaches the sorted set only after its own PUBLISH of the same
\* call succeeded, and events_persisted <= events_published <= the number of
\* events taken from the bus.
PersistedWithinPublished ==
    /\ \A e \in Range(persisted) : Occurrences(persisted, e) <= Occurrences(published, e)
    /\ pub_stats.events_persisted <= pub_stats.events_published
    /\ pub_stats.events_published <= Cardinality(pubHist.taken)

\* C30: every event taken from the bus is handed to publish_batch at most
\* once, the final publish_batch of a shutdown included.
HandedAtMostOnce ==
    \A e \in pubHist.taken : Occurrences(pubHist.handed, e) <= 1

\* C32: scan_text returns the zero result at its pre-filter exactly for the
\* texts for which quick_freight_check is false; so a text for which
\* quick_freight_check is true and in which the automaton finds a keyword
\* gets a confidence above 0.
GateIsQuickCheck ==
    (input.fn = "scan_text" /\ input.text # "" /\ output.scan # None) =>
        /\ ~has_potential(input.text) <=> ~quick_freight_check(input.text)
        /\ (quick_freight_check(input.text)
             /\ find_iter(FREIGHT_KEYWORDS, input.text) # <<>>)
               => output.scan[1].confidence > 0

\* C33: after the transition from Open to HalfOpen admitted its request, an
\* allow_request made in HalfOpen before any record_success or record_failure
\* returns false.
OneTestRequest ==
    (last.op = "allow_request" /\ last.pre.state = "HalfOpen" /\ hoSucc = 0)
        => last.ret = FALSE

\* C34: a record_failure in Open changes the last-failure time to the time of
\* the call and nothing else: the state, the failure count, the success count
\* and the trip count are as before.
OpenFailureRestamps ==
    (last.op = "record_failure" /\ last.pre.state = "Open") =>
        /\ inner.last_failure_time = last.at
        /\ inner = [last.pre EXCEPT !.last_failure_time = last.at]
        /\ inner.state = "Open"

\* C34 witness: a failure recorded in Open, later than the failure that was
\* stamped before, with non-zero counts left as they were
OpenFailureRestampsWitness ==
    /\ last.op = "record_failure"
    /\ last.pre.state = "Open"
    /\ last.at > last.pre.last_failure_time
    /\ inner.failure_count > 0 /\ inner.success_count > 0 /\ inner.total_trips > 1

\* C37: Closed implies failure count < failure_threshold, HalfOpen implies
\* success count < success_threshold, and Open implies that a last-failure
\* time is recorded.
StateInvariants ==
    /\ inner.state = "Closed" => inner.failure_count < failure_threshold
    /\ inner.state = "HalfOpen" => inner.success_count < success_threshold
    /\ inner.state = "Open" => inner.last_failure_time # NoInstant

\* C37 witness: a HalfOpen breaker one success short of closing, after at
\* least one success in HalfOpen
StateInvariantsWitness ==
    /\ inner.state = "HalfOpen"
    /\ inner.success_count = success_threshold - 1
    /\ inner.success_count > 0
    /\ last.op = "record_success"

\* the moves of the state machine
Moves ==
    {<<"Closed", "Open">>, <<"Open", "HalfOpen">>, <<"HalfOpen", "Closed">>,
     <<"HalfOpen", "Open">>}

\* C38: the state changes only along Closed -> Open, Open -> HalfOpen,
\* HalfOpen -> Closed and HalfOpen -> Open; the trip count starts at 0, never
\* decreases and grows by one exactly in the steps that enter Open; and a
\* record_success in Open changes nothing.
OnlyLegalMoves ==
    /\ inner.total_trips = 0
    /\ [][/\ inner'.state # inner.state => <<inner.state, inner'.state>> \in Moves
          /\ inner'.total_trips =
                inner.total_trips
                  + (IF inner.state # "Open" /\ inner'.state = "Open" THEN 1 ELSE 0)
          /\ (last'.op = "record_success" /\ last'.pre.state = "Open" /\ last' # last)
                => inner' = inner]_vars

\* C38 witness: the breaker has been closed from HalfOpen after two trips, so
\* every one of the four moves has happened
OnlyLegalMovesWitness ==
    /\ inner.state = "Closed"
    /\ inner.total_trips >= 2
    /\ last.op = "record_success" /\ last.pre.state = "HalfOpen"

\* C35: a rotation installs an empty filter and sets last_rotation to the
\* time of the rotation; the exact cache, contents and recency order, is as
\* before. (That a key seen before the rotation can then be reported new
\* again is what the witness shows.)
RotationReplacesFilterOnly ==
    [][stats'.rotations # stats.rotations =>
          /\ stats'.rotations = stats.rotations + 1
          /\ bloom' = NewBloom
          /\ last_rotation' = now
          /\ lru_cache' = lru_cache]_vars

\* C35 witness: after a rotation, check_and_insert returned true for a key
\* that had been accepted before and was still in the exact cache
RotationReplacesFilterOnlyWitness ==
    /\ stats.rotations >= 1
    /\ done.ret = "true"
    /\ accepted[done.key] = 2
    /\ done.idx \in 1..CacheCapacity
    /\ done.key \in Range(lru_cache)

\* the keys of the cache are the n most recently checked ones, in that order
MostRecent(n) == SubSeq(recency, 1, Min(Len(recency), n))

InProgress == {t \in Callers : pc[t] # "idle"}

\* C40: no counter of the deduplicator ever decreases; checks counts the calls
\* entered, and every call that has returned added one to exactly one of
\* unique and duplicates, so checks = unique + duplicates whenever no call is
\* in progress; and duplicates <= bloom_maybe_hits always.
StatsAccounting ==
    /\ [](/\ stats.checks = stats.unique + stats.duplicates + Cardinality(InProgress)
          /\ stats.duplicates <= stats.bloom_maybe_hits)
    /\ [][/\ \A c \in DOMAIN stats : stats'[c] >= stats[c]
          /\ done' # done =>
                /\ stats'.unique + stats'.duplicates = stats.unique + stats.duplicates + 1
                /\ done'.ret = "true" <=> stats'.unique = stats.unique + 1
                /\ done'.ret = "false" <=> stats'.duplicates = stats.duplicates + 1]_vars

\* C40 witness: no call is in progress after one call has returned true and
\* one has returned false
StatsAccountingWitness ==
    /\ InProgress = {}
    /\ stats.checks = 2 /\ stats.unique = 1 /\ stats.duplicates = 1
    /\ done.ret = "false"

\* the locks caller t holds between two steps of its call, in the order taken
Held(t) == IF pc[t] = "rotate_write" THEN <<"bloom">> ELSE <<>>

\* the lock the next step of caller t acquires
Wanted(t) ==
    CASE pc[t] = "maybe_rotate" -> "last_rotation"
      [] pc[t] = "rotate_lock"  -> "bloom"
      [] pc[t] = "rotate_write" -> "last_rotation"
      [] pc[t] = "bloom_check"  -> "bloom"
      [] pc[t] = "lru_get"      -> "lru_cache"
      [] pc[t] = "bloom_set"    -> "bloom"
      [] pc[t] = "lru_put"      -> "lru_cache"
      [] OTHER                  -> "none"

\* C39: a caller that acquires a lock while it holds one holds the filter
\* lock and acquires the last_rotation lock; the cache lock is never held
\* when a lock is acquired; the filter's write lock is held by the one caller
\* inside the rotation or by nobody; while calls are in progress one of them
\* can take its next step; and every call returns.
NeverDeadlocks ==
    /\ [](\A t \in Callers :
            /\ Held(t) # <<>> => Held(t) = <<"bloom">> /\ Wanted(t) = "last_rotation"
            /\ bloom_writer = t <=> pc[t] = "rotate_write")
    /\ [](InProgress # {} => \E t \in InProgress : ENABLED Step(t))
    /\ \A t \in Callers : (pc[t] # "idle") ~> (pc[t] = "idle")

\* C39 witness: one caller holds the filter's write lock inside the rotation
\* while another caller waits for the filter lock
NeverDeadlocksWitness ==
    \E t, u \in Callers :
        /\ t # u
        /\ pc[t] = "rotate_write" /\ bloom_writer = t
        /\ Wanted(u) = "bloom"

\* C31: with a broker that accepted the connection and every command, once
\* the shutdown value is set and every scanner and the publisher have
\* returned, the channel is empty and every event taken from it was handed
\* to publish_batch.
ShutdownConservation ==
    (/\ shutdown /\ senders = {} /\ pub_pc = "exited"
     /\ pubHist.attempt = "ok" /\ pubHist.failures = 0) =>
        /\ bus = <<>>
        /\ pubHist.taken \subseteq Range(pubHist.handed)
====
